---- MODULE Spec2Model ----
(***************************************************************************)
(* Welli retention engine (davidzuma/welli): the service's own code, i.e.  *)
(* artifact loading (utils/model_loader.py), the four model wrappers       *)
(* (models/*.py), their lazy module-level singletons and the health check  *)
(* (api/routes.py), the clustering confidence and the churn risk rules.    *)
(* The third-party models and the remote API are the environment: their    *)
(* answers are inputs drawn from small sets.                               *)
(***************************************************************************)
EXTENDS Integers, Sequences, FiniteSets, TLC

VARIABLES
    fs,             \* file name -> state of the file on disk
    dirs,           \* directory -> state of the directory on disk
    catalogItems,   \* length of the "content" list of content_catalog.json
    apiKey,         \* OPENAI_API_KEY is set and non-empty
    last,           \* the loader / constructor call made last (SpecLoad)
    wrapper,        \* routes.py module globals: wrapper name -> instance or None
    pc,             \* worker thread -> position in its request, or how it ended
    target,         \* worker thread -> wrapper its endpoint depends on
    local,          \* thread -> instance its constructor call produced
    hc,             \* the models_health_check coroutine
    hist,           \* history of getter calls and constructor runs, per wrapper
    distances,      \* kmeans_model.transform(features)[0]
    confidence,     \* confidence_score of the cluster response
    request,        \* ChurnPredictionRequest
    churn_prob,     \* churn_model.predict_proba(features)[0][1]
    response,       \* ChurnPredictionResponse
    plan,           \* a generate_daily_plan call: request, remote reply, outcome
    match,          \* a match_goal_to_content call: request, search, outcome
    feat            \* a feature preparation call: user_data and the vector

envVars == <<fs, dirs, catalogItems, apiKey>>
serverVars == <<wrapper, pc, target, local, hc, hist>>
confVars == <<distances, confidence>>
churnVars == <<request, churn_prob, response>>
opVars == <<plan, match, feat>>
vars == <<fs, dirs, catalogItems, apiKey, last, wrapper, pc, target, local, hc,
          hist, distances, confidence, request, churn_prob, response,
          plan, match, feat>>

\* dict.get(key, default)
Get(d, key, default) == IF key \in DOMAIN d THEN d[key] ELSE default

(***************************************************************************)
(* Bounds of the model.                                                    *)
(***************************************************************************)
MaxItems == 2

(***************************************************************************)
(* The file system.                                                        *)
(***************************************************************************)
ClusteringDir == "ml_models/clustering"
ChurnDir == "ml_models/churn_classification"
DataDir == "data"
Dirs == {ClusteringDir, ChurnDir, DataDir}

KMeansFile == "kmeans_model.joblib"
ClusteringScalerFile == "clustering_scaler.joblib"
ClusterInfoFile == "cluster_info.json"
ChurnModelFile == "churn_model.joblib"
ChurnScalerFile == "churn_scaler.joblib"
CatalogFile == "content_catalog.json"
ClusteringFiles == <<KMeansFile, ClusteringScalerFile, ClusterInfoFile>>
ChurnFiles == <<ChurnModelFile, ChurnScalerFile>>
Files == {KMeansFile, ClusteringScalerFile, ClusterInfoFile, ChurnModelFile,
          ChurnScalerFile, CatalogFile}

DirOf(f) ==
    IF f \in {KMeansFile, ClusteringScalerFile, ClusterInfoFile} THEN ClusteringDir
    ELSE IF f \in {ChurnModelFile, ChurnScalerFile} THEN ChurnDir
    ELSE DataDir

\* A file is absent, holds bytes its deserializer rejects, or holds an object
\* that is falsy in Python (an empty dict, 0, ...) or truthy.
FileStates == {"missing", "corrupt", "falsy", "object"}
\* A directory whose parent does not exist, that does not exist, or that exists.
DirStates == {"noparent", "missing", "dir"}

None == "None"
Truthy(v) == v \notin {None, "falsy"}

\* Path.exists()
exists(st) == st # "missing"

\* pickle.load / joblib.load / json.load on an existing file
Deserialize(st) ==
    IF st = "corrupt" THEN [raised |-> TRUE, value |-> None]
    ELSE [raised |-> FALSE, value |-> st]

(***************************************************************************)
(* utils/model_loader.py: ModelLoader                                      *)
(***************************************************************************)
\* Path(base_path).mkdir(exist_ok=True): no parents=True.
ModelLoader_init(dirState) ==
    IF dirState = "noparent" THEN [raised |-> TRUE, dir |-> dirState]
    ELSE [raised |-> FALSE, dir |-> "dir"]

\* Each loader answers with its return value, whether it called the
\* deserializer, whether it raised, and the state it leaves the file in (the
\* files are opened for reading only).
\* A loader that hands the path to the deserializer without testing that the
\* file exists.
NoExistsCheck_load(st) ==
    LET d == IF exists(st) THEN Deserialize(st) ELSE [raised |-> TRUE, value |-> None]
    IN  [result |-> IF d.raised THEN None ELSE d.value,
         file |-> st, deserCalled |-> TRUE, raised |-> FALSE]

load_pickle_model(st) ==
    IF ~exists(st) THEN [result |-> None, file |-> st, deserCalled |-> FALSE,
                         raised |-> FALSE]
    ELSE LET d == Deserialize(st)
         IN  IF d.raised
             THEN [result |-> None, file |-> st, deserCalled |-> TRUE, raised |-> FALSE]
             ELSE [result |-> d.value, file |-> st, deserCalled |-> TRUE, raised |-> FALSE]

load_joblib_model(st) ==
    IF ~exists(st) THEN [result |-> None, file |-> st, deserCalled |-> FALSE,
                         raised |-> FALSE]
    ELSE LET d == Deserialize(st)
         IN  IF d.raised
             THEN [result |-> None, file |-> st, deserCalled |-> TRUE, raised |-> FALSE]
             ELSE [result |-> d.value, file |-> st, deserCalled |-> TRUE, raised |-> FALSE]

load_json_data(st) ==
    IF ~exists(st) THEN [result |-> None, file |-> st, deserCalled |-> FALSE,
                         raised |-> FALSE]
    ELSE LET d == Deserialize(st)
         IN  IF d.raised
             THEN [result |-> None, file |-> st, deserCalled |-> TRUE, raised |-> FALSE]
             ELSE [result |-> d.value, file |-> st, deserCalled |-> TRUE, raised |-> FALSE]

\* create_dummy_models writes a catalog of five items.
DummyCatalogItems == 5

\* ensure_dummy_data: when data/content_catalog.json does not exist, write the
\* dummy catalog. save_json_data swallows a failed write (saved = FALSE).
ensure_dummy_data(fsv, items, saved) ==
    IF ~exists(fsv[CatalogFile]) /\ saved
    THEN [fs |-> [fsv EXCEPT ![CatalogFile] = "object"], items |-> DummyCatalogItems]
    ELSE [fs |-> fsv, items |-> items]

(***************************************************************************)
(* models/clustering.py: UserClusterer                                     *)
(***************************************************************************)
NewUserClusterer ==
    [kmeans_model |-> None, clustering_scaler |-> None, cluster_info |-> None]

\* A loader that only tests "is None" where the code tests truthiness.
NoneCheck_UserClusterer_load_models(fsv) ==
    LET km == load_joblib_model(fsv[KMeansFile])
        sc == load_joblib_model(fsv[ClusteringScalerFile])
        ci == load_json_data(fsv[ClusterInfoFile])
    IN  IF km.result = None
        THEN [exc |-> "KMeans model not found", loaded |-> <<KMeansFile>>,
              self |-> [NewUserClusterer EXCEPT !.kmeans_model = km.result]]
        ELSE IF sc.result = None
        THEN [exc |-> "Clustering scaler not found",
              loaded |-> <<KMeansFile, ClusteringScalerFile>>,
              self |-> [NewUserClusterer EXCEPT !.kmeans_model = km.result,
                                                !.clustering_scaler = sc.result]]
        ELSE IF ci.result = None
        THEN [exc |-> "Cluster info not found", loaded |-> ClusteringFiles,
              self |-> [kmeans_model |-> km.result, clustering_scaler |-> sc.result,
                        cluster_info |-> ci.result]]
        ELSE [exc |-> "none", loaded |-> ClusteringFiles,
              self |-> [kmeans_model |-> km.result, clustering_scaler |-> sc.result,
                        cluster_info |-> ci.result]]

\* _load_models: each artifact is loaded and tested in turn; "loaded" lists
\* the files the loader was asked for, in order.
UserClusterer_load_models(fsv) ==
    LET km == load_joblib_model(fsv[KMeansFile])
        sc == load_joblib_model(fsv[ClusteringScalerFile])
        ci == load_json_data(fsv[ClusterInfoFile])
    IN  IF ~Truthy(km.result)
        THEN [exc |-> "KMeans model not found", loaded |-> <<KMeansFile>>,
              self |-> [NewUserClusterer EXCEPT !.kmeans_model = km.result]]
        ELSE IF ~Truthy(sc.result)
        THEN [exc |-> "Clustering scaler not found",
              loaded |-> <<KMeansFile, ClusteringScalerFile>>,
              self |-> [NewUserClusterer EXCEPT !.kmeans_model = km.result,
                                                !.clustering_scaler = sc.result]]
        ELSE IF ~Truthy(ci.result)
        THEN [exc |-> "Cluster info not found", loaded |-> ClusteringFiles,
              self |-> [kmeans_model |-> km.result, clustering_scaler |-> sc.result,
                        cluster_info |-> ci.result]]
        ELSE [exc |-> "none", loaded |-> ClusteringFiles,
              self |-> [kmeans_model |-> km.result, clustering_scaler |-> sc.result,
                        cluster_info |-> ci.result]]

\* __init__: ModelLoader(base_path="ml_models/clustering"), then _load_models.
UserClusterer_init(fsv, dirState) ==
    LET mk == ModelLoader_init(dirState)
        ld == UserClusterer_load_models(fsv)
    IN  IF mk.raised
        THEN [exc |-> "FileNotFoundError", loaded |-> <<>>,
              self |-> NewUserClusterer, dir |-> mk.dir]
        ELSE [exc |-> ld.exc, loaded |-> ld.loaded, self |-> ld.self, dir |-> mk.dir]

UserClusterer_is_ready(self) ==
    /\ self.kmeans_model # None
    /\ self.clustering_scaler # None
    /\ self.cluster_info # None

\* The guards that open cluster_user.
UserClusterer_guard(self) ==
    IF ~Truthy(self.kmeans_model) THEN "KMeans model not loaded"
    ELSE IF ~Truthy(self.clustering_scaler) THEN "Clustering scaler not loaded"
    ELSE IF ~Truthy(self.cluster_info) THEN "Cluster info not loaded"
    ELSE "none"

(***************************************************************************)
(* models/churn_model.py: ChurnPredictor (construction)                    *)
(***************************************************************************)
NewChurnPredictor == [churn_model |-> None, churn_scaler |-> None]

ChurnPredictor_load_model(fsv) ==
    LET cm == load_joblib_model(fsv[ChurnModelFile])
        sc == load_joblib_model(fsv[ChurnScalerFile])
    IN  IF ~Truthy(cm.result)
        THEN [exc |-> "Churn model not found", loaded |-> <<ChurnModelFile>>,
              self |-> [NewChurnPredictor EXCEPT !.churn_model = cm.result]]
        ELSE IF ~Truthy(sc.result)
        THEN [exc |-> "Churn scaler not found", loaded |-> ChurnFiles,
              self |-> [churn_model |-> cm.result, churn_scaler |-> sc.result]]
        ELSE [exc |-> "none", loaded |-> ChurnFiles,
              self |-> [churn_model |-> cm.result, churn_scaler |-> sc.result]]

ChurnPredictor_init(fsv, dirState) ==
    LET mk == ModelLoader_init(dirState)
        ld == ChurnPredictor_load_model(fsv)
    IN  IF mk.raised
        THEN [exc |-> "FileNotFoundError", loaded |-> <<>>,
              self |-> NewChurnPredictor, dir |-> mk.dir]
        ELSE [exc |-> ld.exc, loaded |-> ld.loaded, self |-> ld.self, dir |-> mk.dir]

ChurnPredictor_is_ready(self) ==
    self.churn_model # None /\ self.churn_scaler # None

\* The guards that open predict_churn.
ChurnPredictor_guard(self) ==
    IF ~Truthy(self.churn_model) THEN "Churn model not loaded"
    ELSE IF ~Truthy(self.churn_scaler) THEN "Churn scaler not loaded"
    ELSE "none"

(***************************************************************************)
(* models/content_matcher.py: ContentMatcher (construction)                *)
(***************************************************************************)
NewContentMatcher ==
    [openai_client |-> None, faiss_index |-> None, ntotal |-> 0, content_data |-> 0]

\* __init__: ModelLoader(), ensure_dummy_data(), _setup_openai(),
\* _load_content_and_build_index(). content_data is modelled by its length,
\* faiss_index by the object and its ntotal. saved: the dummy catalog could be
\* written; apiOk: the remote embeddings call answered.
ContentMatcher_init(fsv, dirState, items, key, saved, apiOk) ==
    LET mk == ModelLoader_init(dirState)
        ed == ensure_dummy_data(fsv, items, saved)
        cat == load_json_data(ed.fs[CatalogFile])
        s1 == [NewContentMatcher EXCEPT !.openai_client = "client"]
        s2 == [s1 EXCEPT !.content_data = ed.items]
        s3 == [s2 EXCEPT !.faiss_index = "index"]
        s4 == [s3 EXCEPT !.ntotal = ed.items]
        out(e, slf) == [exc |-> e, self |-> slf, fs |-> ed.fs, items |-> ed.items,
                        dir |-> mk.dir]
    IN  IF mk.raised
        THEN [exc |-> "FileNotFoundError", self |-> NewContentMatcher, fs |-> fsv,
              items |-> items, dir |-> mk.dir]
        ELSE IF ~key THEN out("Failed to initialize OpenAI client", NewContentMatcher)
        ELSE IF ~Truthy(cat.result) THEN out("Failed to load content catalog", s1)
        ELSE IF s3.content_data = 0
        THEN out("FAISS index or content data not available", s3)
        ELSE IF ~apiOk THEN out("OpenAI embeddings call failed", s3)
        ELSE out("none", s4)

ContentMatcher_is_ready(self) ==
    /\ self.content_data > 0
    /\ self.openai_client # None
    /\ self.faiss_index # None
    /\ self.ntotal > 0

\* The guards that open match_goal_to_content.
ContentMatcher_guard(self) ==
    IF self.content_data = 0 THEN "No content data available"
    ELSE IF self.openai_client = None THEN "OpenAI client not initialized"
    ELSE IF self.faiss_index = None \/ self.ntotal = 0 THEN "FAISS index not ready"
    ELSE "none"

(***************************************************************************)
(* models/micro_coach.py: MicroCoach (construction)                        *)
(***************************************************************************)
NewMicroCoach == [openai_client |-> None]

\* __init__ / _initialize_openai
MicroCoach_init(key) ==
    IF ~key THEN [exc |-> "Failed to initialize OpenAI client", self |-> NewMicroCoach]
    ELSE [exc |-> "none", self |-> [openai_client |-> "client"]]

MicroCoach_is_ready(self) == self.openai_client # None

\* The guard that opens generate_daily_plan and _call_openai.
MicroCoach_guard(self) ==
    IF self.openai_client = None THEN "OpenAI client not initialized" ELSE "none"

(***************************************************************************)
(* Values the variables of the other specifications rest at.               *)
(***************************************************************************)
NoCall ==
    [op |-> "none", file |-> "none", st |-> "none", result |-> None,
     deserCalled |-> FALSE, raised |-> FALSE, exc |-> "none", loaded |-> <<>>,
     fsBefore |-> [f \in Files |-> "missing"],
     dirsBefore |-> [d \in Dirs |-> "dir"]]

\* Files lie in directories: a directory that does not exist holds no file.
Consistent(fsv, dirv) ==
    \A f \in Files : dirv[DirOf(f)] # "dir" => fsv[f] = "missing"

ConfIdle == distances = <<>> /\ confidence = -1
ChurnIdle == request = <<>> /\ churn_prob = -1 /\ response = <<>>
PlanIdle == plan = <<>>
MatchIdle == match = <<>>
FeatIdle == feat = <<>>
OpIdle == PlanIdle /\ MatchIdle /\ FeatIdle

(***************************************************************************)
(* api/routes.py: the module-level wrappers and their lazy getters         *)
(***************************************************************************)
NumWorkers == 1
Workers == 1..NumWorkers

\* The order in which models_health_check asks for the wrappers.
HealthOrder == <<"content_matcher", "user_clusterer", "churn_predictor", "micro_coach">>
Wrappers == {HealthOrder[i] : i \in 1..4}

\* An instance is its identity and its fields; id 0 is Python's None.
NoInstance == [id |-> 0, self |-> <<>>]
IsNone(inst) == inst.id = 0

\* ContentMatcher() / UserClusterer() / ChurnPredictor() / MicroCoach(): the
\* exception raised ("none": the constructor completed), the fields of the
\* object, and the file system the call leaves behind.
Constructor(w, fsv, dirv, items, key, saved, apiOk) ==
    CASE w = "content_matcher" ->
            LET r == ContentMatcher_init(fsv, dirv[DataDir], items, key, saved, apiOk)
            IN  [exc |-> r.exc, self |-> r.self, fs |-> r.fs, items |-> r.items,
                 dirs |-> [dirv EXCEPT ![DataDir] = r.dir]]
      [] w = "user_clusterer" ->
            LET r == UserClusterer_init(fsv, dirv[ClusteringDir])
            IN  [exc |-> r.exc, self |-> r.self, fs |-> fsv, items |-> items,
                 dirs |-> [dirv EXCEPT ![ClusteringDir] = r.dir]]
      [] w = "churn_predictor" ->
            LET r == ChurnPredictor_init(fsv, dirv[ChurnDir])
            IN  [exc |-> r.exc, self |-> r.self, fs |-> fsv, items |-> items,
                 dirs |-> [dirv EXCEPT ![ChurnDir] = r.dir]]
      [] w = "micro_coach" ->
            LET r == MicroCoach_init(key)
            IN  [exc |-> r.exc, self |-> r.self, fs |-> fsv, items |-> items,
                 dirs |-> dirv]

is_ready(w, self) ==
    CASE w = "content_matcher" -> ContentMatcher_is_ready(self)
      [] w = "user_clusterer" -> UserClusterer_is_ready(self)
      [] w = "churn_predictor" -> ChurnPredictor_is_ready(self)
      [] w = "micro_coach" -> MicroCoach_is_ready(self)

\* The 'not loaded' / 'not initialized' error the wrapper's operation opens
\* with, "none" when it passes its guards.
Guard(w, self) ==
    CASE w = "content_matcher" -> ContentMatcher_guard(self)
      [] w = "user_clusterer" -> UserClusterer_guard(self)
      [] w = "churn_predictor" -> ChurnPredictor_guard(self)
      [] w = "micro_coach" -> MicroCoach_guard(self)

NoHistory ==
    [called |-> FALSE,      \* the getter was called
     ctorRun |-> FALSE,     \* the constructor was started
     completed |-> 0,       \* constructor runs that completed
     returned |-> {},       \* identities of the instances the getter returned
     rerun |-> FALSE]       \* the constructor was started after a return

\* A getter that constructs on every call.
NoCache_GetterTest(w) == "construct"

\* get_<wrapper>(), line "if <wrapper> is None": the global is read.
GetterTest(w) == IF IsNone(wrapper[w]) THEN "construct" ELSE "return"

\* A call of the getter by worker t, as the dependency of its endpoint.
GetterEnter(t, w) ==
    /\ pc[t] = "idle"
    /\ pc' = [pc EXCEPT ![t] = GetterTest(w)]
    /\ target' = [target EXCEPT ![t] = w]
    /\ hist' = [hist EXCEPT ![w].called = TRUE]
    /\ UNCHANGED <<envVars, last, wrapper, local, hc, confVars, churnVars, opVars>>

match_goal(t) == GetterEnter(t, "content_matcher")
cluster_user(t) == GetterEnter(t, "user_clusterer")
predict_churn(t) == GetterEnter(t, "churn_predictor")
generate_daily_plan(t) == GetterEnter(t, "micro_coach")

\* The history of wrapper w after a constructor run that ended with exc.
CtorHistory(h, exc) ==
    [h EXCEPT !.ctorRun = TRUE,
              !.completed = IF exc = "none" THEN @ + 1 ELSE @,
              !.rerun = @ \/ h.returned # {}]

\* The object a completed constructor run of wrapper w leaves: the k-th
\* object of its class.
NewInstance(w, self) == [id |-> hist[w].completed + 1, self |-> self]

\* "<wrapper> = <Class>()", right-hand side: the constructor runs. An
\* exception leaves the getter and ends the request (HTTP 500).
GetterConstruct(t) ==
    /\ pc[t] = "construct"
    /\ \E saved \in BOOLEAN, apiOk \in BOOLEAN :
        LET w == target[t]
            r == Constructor(w, fs, dirs, catalogItems, apiKey, saved, apiOk)
        IN  /\ fs' = r.fs
            /\ dirs' = r.dirs
            /\ catalogItems' = r.items
            /\ hist' = [hist EXCEPT ![w] = CtorHistory(@, r.exc)]
            /\ IF r.exc = "none"
               THEN /\ local' = [local EXCEPT ![t] = NewInstance(w, r.self)]
                    /\ pc' = [pc EXCEPT ![t] = "assign"]
                    /\ UNCHANGED target
               ELSE /\ pc' = [pc EXCEPT ![t] = "failed"]
                    /\ UNCHANGED <<target, local>>
    /\ UNCHANGED <<apiKey, last, wrapper, hc, confVars, churnVars, opVars>>

\* "<wrapper> = <Class>()", the assignment to the global.
GetterAssign(t) ==
    /\ pc[t] = "assign"
    /\ wrapper' = [wrapper EXCEPT ![target[t]] = local[t]]
    /\ local' = [local EXCEPT ![t] = NoInstance]
    /\ pc' = [pc EXCEPT ![t] = "return"]
    /\ UNCHANGED <<envVars, last, target, hc, hist, confVars, churnVars, opVars>>

\* The endpoint's call of the wrapper's operation ends the request: with
\* HTTP 500 and a 'not loaded' / 'not initialized' message when a guard of
\* the operation raises.
Endpoint(w, self) == IF Guard(w, self) = "none" THEN "done" ELSE "not loaded"

\* "return <wrapper>": the global is read again; the endpoint then calls the
\* wrapper's operation, which opens with its guards.
GetterReturn(t) ==
    /\ pc[t] = "return"
    /\ LET w == target[t]
           inst == wrapper[w]
       IN  /\ hist' = [hist EXCEPT ![w].returned = @ \cup {inst.id}]
           /\ pc' = [pc EXCEPT ![t] = Endpoint(w, inst.self)]
    /\ UNCHANGED <<envVars, last, wrapper, target, local, hc, confVars, churnVars, opVars>>

(***************************************************************************)
(* api/routes.py: models_health_check, a coroutine on the event loop that  *)
(* calls the four getters itself, in HealthOrder, while the worker threads *)
(* run the getters of the POST endpoints.                                  *)
(***************************************************************************)
AllFalse == [w \in Wrappers |-> FALSE]

HealthIdle ==
    [pc |-> "idle", i |-> 1, local |-> NoInstance, health_status |-> AllFalse,
     status |-> "none", raised |-> FALSE]

\* A status built with any() where the code uses all().
Any_HealthStatus(health_status) ==
    IF \E w \in Wrappers : health_status[w] THEN "healthy" ELSE "degraded"

\* "healthy" if all(health_status.values()) else "degraded"
HealthStatus(health_status) ==
    IF \A w \in Wrappers : health_status[w] THEN "healthy" ELSE "degraded"

\* The response: {"status": ..., "models": health_status}
HealthRespond(h) ==
    [h EXCEPT !.pc = "done", !.status = HealthStatus(h.health_status)]

\* A health check without its try / except: the exception leaves the handler.
NoTry_HealthExcept(h) ==
    [h EXCEPT !.pc = "done", !.status = "none", !.raised = TRUE]

\* "except Exception as e": the error is logged and the response is built
\* from what health_status holds so far.
HealthExcept(h) == HealthRespond(h)

\* The request arrives: health_status is all False.
HealthStart ==
    /\ hc.pc \in {"idle", "done"}
    /\ hc' = [HealthIdle EXCEPT !.pc = "check"]
    /\ UNCHANGED <<envVars, last, wrapper, pc, target, local, hist, confVars,
                   churnVars, opVars>>

HealthGetterEnter ==
    /\ hc.pc = "check"
    /\ hc' = [hc EXCEPT !.pc = GetterTest(HealthOrder[hc.i])]
    /\ hist' = [hist EXCEPT ![HealthOrder[hc.i]].called = TRUE]
    /\ UNCHANGED <<envVars, last, wrapper, pc, target, local, confVars, churnVars, opVars>>

HealthGetterConstruct ==
    /\ hc.pc = "construct"
    /\ \E saved \in BOOLEAN, apiOk \in BOOLEAN :
        LET w == HealthOrder[hc.i]
            r == Constructor(w, fs, dirs, catalogItems, apiKey, saved, apiOk)
        IN  /\ fs' = r.fs
            /\ dirs' = r.dirs
            /\ catalogItems' = r.items
            /\ hist' = [hist EXCEPT ![w] = CtorHistory(@, r.exc)]
            /\ hc' = IF r.exc = "none"
                     THEN [hc EXCEPT !.pc = "assign", !.local = NewInstance(w, r.self)]
                     ELSE HealthExcept(hc)
    /\ UNCHANGED <<apiKey, last, wrapper, pc, target, local, confVars, churnVars, opVars>>

HealthGetterAssign ==
    /\ hc.pc = "assign"
    /\ wrapper' = [wrapper EXCEPT ![HealthOrder[hc.i]] = hc.local]
    /\ hc' = [hc EXCEPT !.pc = "return", !.local = NoInstance]
    /\ UNCHANGED <<envVars, last, pc, target, local, hist, confVars, churnVars, opVars>>

\* "return <wrapper>", then health_status[...] = <wrapper>.is_ready(); after
\* the fourth wrapper the response is built.
HealthGetterReturn ==
    /\ hc.pc = "return"
    /\ LET w == HealthOrder[hc.i]
           inst == wrapper[w]
           h == [hc EXCEPT !.health_status[w] = is_ready(w, inst.self)]
       IN  /\ hc' = IF hc.i < 4 THEN [h EXCEPT !.pc = "check", !.i = @ + 1]
                    ELSE HealthRespond(h)
           /\ hist' = [hist EXCEPT ![w].returned = @ \cup {inst.id}]
    /\ UNCHANGED <<envVars, last, wrapper, pc, target, local, confVars, churnVars, opVars>>

ServerInit ==
    /\ wrapper = [w \in Wrappers |-> NoInstance]
    /\ pc = [t \in Workers |-> "idle"]
    /\ target = [t \in Workers |-> "none"]
    /\ local = [t \in Workers |-> NoInstance]
    /\ hc = HealthIdle
    /\ hist = [w \in Wrappers |-> NoHistory]

\* What is wrong with a deployment: directories that are not there, files
\* (in directories that are there) that are absent, damaged or falsy, an
\* empty catalog, a missing key.
Defects(fsv, dirv, items, key) ==
    Cardinality({d \in Dirs : dirv[d] # "dir"})
    + Cardinality({f \in Files : dirv[DirOf(f)] = "dir" /\ fsv[f] # "object"})
    + (IF items = 0 THEN 1 ELSE 0)
    + (IF key THEN 0 ELSE 1)

\* The deployment the server starts in: everything in place, or one defect.
EnvInit ==
    /\ dirs \in [Dirs -> DirStates]
    /\ dirs[DataDir] # "noparent"
    /\ fs \in [Files -> FileStates]
    /\ Consistent(fs, dirs)
    /\ catalogItems \in {0, MaxItems}
    /\ apiKey \in BOOLEAN
    /\ Defects(fs, dirs, catalogItems, apiKey) <= 1

Init == EnvInit /\ ServerInit /\ last = NoCall /\ ConfIdle /\ ChurnIdle /\ OpIdle

Worker(t) ==
    \/ match_goal(t)
    \/ cluster_user(t)
    \/ predict_churn(t)
    \/ generate_daily_plan(t)
    \/ GetterConstruct(t)
    \/ GetterAssign(t)
    \/ GetterReturn(t)

models_health_check ==
    \/ HealthStart
    \/ HealthGetterEnter
    \/ HealthGetterConstruct
    \/ HealthGetterAssign
    \/ HealthGetterReturn

\* Concurrent requests: every worker thread serves one POST request, the
\* event loop serves health checks, and their steps interleave.
Next == (\E t \in Workers : Worker(t)) \/ models_health_check

Spec == Init /\ [][Next]_vars

(***************************************************************************)
(* Requests handled one after another: a request starts only when no other *)
(* is in flight, and a worker thread that ended its request takes the next.*)
(***************************************************************************)
Resting(p) == p \in {"idle", "done", "not loaded", "failed"}
Quiet(t) == Resting(hc.pc) /\ \A u \in Workers \ {t} : Resting(pc[u])

Recycle(t) ==
    /\ pc[t] \in {"done", "not loaded", "failed"}
    /\ pc' = [pc EXCEPT ![t] = "idle"]
    /\ target' = [target EXCEPT ![t] = "none"]
    /\ UNCHANGED <<envVars, last, wrapper, local, hc, hist, confVars, churnVars, opVars>>

SeqWorker(t) == Quiet(t) /\ (Worker(t) \/ Recycle(t))

SeqHealth == (\A t \in Workers : Resting(pc[t])) /\ models_health_check

NextSeq == (\E t \in Workers : SeqWorker(t)) \/ SeqHealth

SpecSeq == Init /\ [][NextSeq]_vars

(***************************************************************************)
(* Loading on its own: the three loaders and the two constructors that     *)
(* require artifacts, called on every state of the two model directories.  *)
(***************************************************************************)
LoadInit ==
    /\ dirs \in [Dirs -> DirStates]
    /\ dirs[DataDir] = "dir"
    /\ fs \in [Files -> FileStates]
    /\ fs[CatalogFile] = "object"
    /\ Consistent(fs, dirs)
    /\ catalogItems = MaxItems
    /\ apiKey = TRUE
    /\ last = NoCall
    /\ ServerInit /\ ConfIdle /\ ChurnIdle /\ OpIdle

\* The record of a loader call on file f that answered r.
LoadCall(op, f, r) ==
    [NoCall EXCEPT !.op = op, !.file = f, !.st = fs[f], !.result = r.result,
                   !.deserCalled = r.deserCalled, !.raised = r.raised,
                   !.fsBefore = fs, !.dirsBefore = dirs]

LoadPickle(f) ==
    LET r == load_pickle_model(fs[f])
    IN  /\ last' = LoadCall("load_pickle_model", f, r)
        /\ fs' = [fs EXCEPT ![f] = r.file]
        /\ UNCHANGED <<dirs, catalogItems, apiKey, serverVars, confVars, churnVars, opVars>>

LoadJoblib(f) ==
    LET r == load_joblib_model(fs[f])
    IN  /\ last' = LoadCall("load_joblib_model", f, r)
        /\ fs' = [fs EXCEPT ![f] = r.file]
        /\ UNCHANGED <<dirs, catalogItems, apiKey, serverVars, confVars, churnVars, opVars>>

LoadJson(f) ==
    LET r == load_json_data(fs[f])
    IN  /\ last' = LoadCall("load_json_data", f, r)
        /\ fs' = [fs EXCEPT ![f] = r.file]
        /\ UNCHANGED <<dirs, catalogItems, apiKey, serverVars, confVars, churnVars, opVars>>

\* The record of a constructor call that answered r.
CtorCall(op, r) ==
    [NoCall EXCEPT !.op = op, !.exc = r.exc, !.loaded = r.loaded,
                   !.fsBefore = fs, !.dirsBefore = dirs]

ConstructUserClusterer ==
    LET r == UserClusterer_init(fs, dirs[ClusteringDir])
    IN  /\ last' = CtorCall("UserClusterer", r)
        /\ dirs' = [dirs EXCEPT ![ClusteringDir] = r.dir]
        /\ UNCHANGED <<fs, catalogItems, apiKey, serverVars, confVars, churnVars, opVars>>

ConstructChurnPredictor ==
    LET r == ChurnPredictor_init(fs, dirs[ChurnDir])
    IN  /\ last' = CtorCall("ChurnPredictor", r)
        /\ dirs' = [dirs EXCEPT ![ChurnDir] = r.dir]
        /\ UNCHANGED <<fs, catalogItems, apiKey, serverVars, confVars, churnVars, opVars>>

NextLoad ==
    \/ \E f \in Files : LoadPickle(f)
    \/ \E f \in Files : LoadJoblib(f)
    \/ \E f \in Files : LoadJson(f)
    \/ ConstructUserClusterer
    \/ ConstructChurnPredictor

SpecLoad == LoadInit /\ [][NextLoad]_vars

(***************************************************************************)
(* models/clustering.py: the confidence of cluster_user.                   *)
(*                                                                         *)
(* The distances and the confidence are binary floating-point numbers.     *)
(* The model keeps the arithmetic (round to nearest, ties to even) and     *)
(* scales the format down: MantBits significant bits, normal numbers from  *)
(* 2^-MinExp up, so that every number is a multiple of 1/Grid and is kept  *)
(* as that multiple.                                                       *)
(***************************************************************************)
MantBits == 3
MinExp == 6
MaxDist == 32
MaxClusters == 3

RECURSIVE Pow2(_)
Pow2(n) == IF n = 0 THEN 1 ELSE 2 * Pow2(n - 1)

Grid == Pow2(MinExp + MantBits - 1)
One == Grid

\* a / b to the nearest integer, ties to the even one
RoundHalfEven(a, b) ==
    LET q == a \div b
        r == a % b
    IN  IF 2 * r < b THEN q
        ELSE IF 2 * r > b THEN q + 1
        ELSE IF q % 2 = 0 THEN q ELSE q + 1

\* The exponent of the unit in the last place of a / b: the least k with
\* a / b < 2^(k + MantBits).
RECURSIVE UlpExp(_, _, _)
UlpExp(a, b, k) == IF a < b * Pow2(k + MantBits) THEN k ELSE UlpExp(a, b, k + 1)

\* a / b (in Grid units) rounded to MantBits significant bits
FloatRound(a, b) ==
    LET k == UlpExp(a, b, 0)
    IN  RoundHalfEven(a, b * Pow2(k)) * Pow2(k)

\* x / y and x - y in floating point (x, y in Grid units, x >= y for x - y)
FloatDiv(x, y) == FloatRound(x * Grid, y)
FloatSub(x, y) == FloatRound(x - y, 1)

\* d without its trailing zero bits (d > 0)
RECURSIVE OddPart(_)
OddPart(d) == IF d % 2 = 0 THEN OddPart(d \div 2) ELSE d

\* The integers the format holds exactly.
Representable(d) == d = 0 \/ OddPart(d) < Pow2(MantBits)
DistValues == {d \in 0..MaxDist : Representable(d)}

SeqMin(q) == CHOOSE x \in {q[i] : i \in 1..Len(q)} : \A i \in 1..Len(q) : x <= q[i]
SeqMax(q) == CHOOSE x \in {q[i] : i \in 1..Len(q)} : \A i \in 1..Len(q) : x >= q[i]

\* A confidence that forgets to take the ratio from 1.
Ratio_cluster_confidence(q) ==
    LET min_distance == SeqMin(q) * Grid
        max_distance == IF SeqMax(q) > 0 THEN SeqMax(q) * Grid ELSE One
    IN  FloatDiv(min_distance, max_distance)

\* min_distance = min(distances)
\* max_distance = max(distances) if max(distances) > 0 else 1.0
\* confidence = 1.0 - (min_distance / max_distance)
cluster_confidence(q) ==
    LET min_distance == SeqMin(q) * Grid
        max_distance == IF SeqMax(q) > 0 THEN SeqMax(q) * Grid ELSE One
    IN  FloatSub(One, FloatDiv(min_distance, max_distance))

\* kmeans_model.transform answers with one finite, non-negative distance for
\* each cluster centre.
ConfInit ==
    /\ distances \in UNION {[1..n -> DistValues] : n \in 1..MaxClusters}
    /\ confidence = -1
    /\ fs = [f \in Files |-> "object"] /\ dirs = [d \in Dirs |-> "dir"]
    /\ catalogItems = MaxItems /\ apiKey = TRUE /\ last = NoCall
    /\ ServerInit /\ ChurnIdle /\ OpIdle

\* cluster_user, from the distances to the confidence_score of its response
ClusterUserConfidence ==
    /\ confidence = -1
    /\ confidence' = cluster_confidence(distances)
    /\ UNCHANGED <<envVars, last, serverVars, distances, churnVars, opVars>>

NextConf == ClusterUserConfidence

SpecConf == ConfInit /\ [][NextConf]_vars

(***************************************************************************)
(* utils/feature_prep.py and models/churn_model.py: predict_churn.         *)
(*                                                                         *)
(* Rates are kept in hundredths (0.3 is 30) and the classifier's           *)
(* probability in ten-thousandths (0.7 is 7000), so that the comparisons   *)
(* and the rounding to three decimals are exact.                           *)
(***************************************************************************)
MaxDays == 9
MaxSessions == 3

\* prepare_churn_features: the 1x8 vector, user_data.get(name, 0) in this order
\* The vector with streak_length and last_login_days_ago in each other's place.
Swapped_prepare_churn_features(user_data) ==
    <<Get(user_data, "days_since_signup", 0),
      Get(user_data, "total_sessions", 0),
      Get(user_data, "avg_session_duration", 0),
      Get(user_data, "last_login_days_ago", 0),
      Get(user_data, "streak_length", 0),
      Get(user_data, "content_completion_rate", 0),
      Get(user_data, "notification_response_rate", 0),
      Get(user_data, "goal_progress_percentage", 0)>>

prepare_churn_features(user_data) ==
    <<Get(user_data, "days_since_signup", 0),
      Get(user_data, "total_sessions", 0),
      Get(user_data, "avg_session_duration", 0),
      Get(user_data, "streak_length", 0),
      Get(user_data, "last_login_days_ago", 0),
      Get(user_data, "content_completion_rate", 0),
      Get(user_data, "notification_response_rate", 0),
      Get(user_data, "goal_progress_percentage", 0)>>

\* The login factors with a plain "if" where the code has "elif".
NoElif_login_factors(last_login_days_ago) ==
    LET f == IF last_login_days_ago > 7
             THEN <<"Extended period without app usage">> ELSE <<>>
    IN  IF last_login_days_ago > 3
        THEN Append(f, "Several days since last login") ELSE f

\* _get_risk_factors, the if / elif on last_login_days_ago
login_factors(last_login_days_ago) ==
    IF last_login_days_ago > 7
    THEN <<"Extended period without app usage">>
    ELSE IF last_login_days_ago > 3
    THEN <<"Several days since last login">>
    ELSE <<>>

\* _get_risk_factors: features[0, j] of the code is features[j + 1] here.
get_risk_factors(features, prob) ==
    LET days_since_signup == features[1]
        total_sessions == features[2]
        last_login_days_ago == features[5]
        completion_rate == features[6]
        notification_response == features[7]
        goal_progress == features[8]
        f1 == login_factors(last_login_days_ago)
        f2 == IF total_sessions < 3 /\ days_since_signup > 7
              THEN Append(f1, "Low session count relative to signup time") ELSE f1
        f3 == IF completion_rate < 30
              THEN Append(f2, "Low content completion rate") ELSE f2
        f4 == IF notification_response < 20
              THEN Append(f3, "Poor notification engagement") ELSE f3
        f5 == IF goal_progress < 20
              THEN Append(f4, "Limited progress toward wellness goals") ELSE f4
    IN  IF f5 = <<>> /\ prob > 5000
        THEN <<"General engagement decline patterns">>
        ELSE f5

\* round(churn_prob, 3), in thousandths.  A probability exactly halfway
\* between two thousandths is not among ProbValues: which way a binary float
\* at such a value rounds depends on its expansion.
round3(prob) == RoundHalfEven(prob, 10)

\* A risk level decided on the probability the response reports.
Rounded_risk_level(prob) ==
    IF round3(prob) * 10 >= 7000 THEN "high"
    ELSE IF round3(prob) * 10 >= 4000 THEN "medium"
    ELSE "low"

\* predict_churn, "Determine risk level"
risk_level(prob) ==
    IF prob >= 7000 THEN "high"
    ELSE IF prob >= 4000 THEN "medium"
    ELSE "low"

InSeq(x, q) == \E i \in 1..Len(q) : q[i] = x

\* _get_intervention_recommendation
get_intervention_recommendation(level, factors) ==
    IF level = "high"
    THEN IF InSeq("Extended period without app usage", factors)
         THEN "Send personalized re-engagement campaign with wellness goal reminder"
         ELSE IF InSeq("Low content completion rate", factors)
         THEN "Offer shorter, easier content options with immediate rewards"
         ELSE "Provide one-on-one check-in with personalized motivation"
    ELSE IF level = "medium"
    THEN IF InSeq("Poor notification engagement", factors)
         THEN "Optimize notification timing and personalize message content"
         ELSE "Introduce streak-building challenges with social elements"
    ELSE "Continue current engagement patterns with occasional check-ins"

\* predict_churn, given the probability the classifier answered with
predict_churn_response(user_data, prob) ==
    LET features == prepare_churn_features(user_data)
        level == risk_level(prob)
        risk_factors == get_risk_factors(features, prob)
    IN  [user_id |-> user_data.user_id,
         churn_probability |-> round3(prob),
         risk_level |-> level,
         recommended_intervention |-> get_intervention_recommendation(level, risk_factors),
         factors_contributing_to_risk |-> risk_factors]

\* The requests and the classifier's answers the model draws from: values on
\* both sides of every threshold.
RateValues == {19, 20, 29, 30}
ProbValues == {0, 3999, 4000, 5000, 5001, 6996, 6999, 7000, 10000}

ChurnRequests ==
    [user_id : {"u1"},
     days_since_signup : 0..MaxDays,
     total_sessions : 0..MaxSessions,
     avg_session_duration : {15},
     streak_length : {2},
     last_login_days_ago : 0..MaxDays,
     content_completion_rate : RateValues,
     notification_response_rate : RateValues,
     goal_progress_percentage : RateValues]

ChurnInit ==
    /\ request \in ChurnRequests
    /\ churn_prob \in ProbValues
    /\ response = <<>>
    /\ fs = [f \in Files |-> "object"] /\ dirs = [d \in Dirs |-> "dir"]
    /\ catalogItems = MaxItems /\ apiKey = TRUE /\ last = NoCall
    /\ ServerInit /\ ConfIdle /\ OpIdle

\* predict_churn on a loaded ChurnPredictor
PredictChurn ==
    /\ response = <<>>
    /\ response' = predict_churn_response(request, churn_prob)
    /\ UNCHANGED <<envVars, last, serverVars, confVars, request, churn_prob, opVars>>

NextChurn == PredictChurn

SpecChurn == ChurnInit /\ [][NextChurn]_vars

(***************************************************************************)
(* models/micro_coach.py: generate_daily_plan, and its endpoint.           *)
(*                                                                         *)
(* The remote chat completion is the environment: it fails, or it answers  *)
(* with a message whose content is absent, is not JSON, is nested past the *)
(* interpreter's recursion limit, or is JSON.  A JSON object is a function *)
(* from its keys to their values.                                          *)
(***************************************************************************)
MaxPlanItems == 2
MaxMinutes == 2

PlanUsers == {"u1", "u2"}

\* The items of a reply: with or without duration_minutes.
PlanItemValues ==
    {[activity |-> "a", description |-> "d", category |-> "c"]}
        \cup {[activity |-> "a", description |-> "d", category |-> "c",
               duration_minutes |-> m] : m \in 1..MaxMinutes}

PlanItemLists == UNION {[1..n -> PlanItemValues] : n \in 0..MaxPlanItems}

\* The JSON objects of a reply: each of the three keys present or not.
PlanObjects ==
    {[k \in keys |->
        CASE k = "motivational_message" -> "m"
          [] k = "follow_up_time" -> "morning"
          [] k = "daily_items" -> items] :
        keys \in SUBSET {"motivational_message", "daily_items", "follow_up_time"},
        items \in PlanItemLists}

\* What the remote call comes to.
RemoteOutcomes ==
    {[kind |-> k, value |-> <<>>] :
        k \in {"error", "no content", "not json", "too deep", "json array"}}
        \cup {[kind |-> "json object", value |-> o] : o \in PlanObjects}

NoPlanCall ==
    [pc |-> "start", user_id |-> "u1", remote |-> <<>>, calls |-> 0, parses |-> 0,
     plan_data |-> [type |-> "none", obj |-> <<>>], result |-> <<>>, exc |-> "none", http |-> 0, detail |-> <<>>]

\* A remote call that is made again after it failed.
Retry_AfterRemoteError == "start"

\* _call_openai: the await is in no try block, an exception of the remote
\* call leaves _call_openai and generate_daily_plan.
AfterRemoteError == "raised"

\* json.loads(content) inside try / except json.JSONDecodeError
json_loads(remote) ==
    CASE remote.kind = "not json" ->
            [raised |-> TRUE, exc |-> "Invalid JSON response from OpenAI",
             value |-> [type |-> "none", obj |-> <<>>]]
      [] remote.kind = "too deep" ->
            [raised |-> TRUE, exc |-> "RecursionError",
             value |-> [type |-> "none", obj |-> <<>>]]
      [] remote.kind = "json array" ->
            [raised |-> FALSE, exc |-> "none", value |-> [type |-> "array", obj |-> <<>>]]
      [] remote.kind = "json object" ->
            [raised |-> FALSE, exc |-> "none",
             value |-> [type |-> "object", obj |-> remote.value]]

\* A total that gives an item without duration_minutes a default length.
RECURSIVE Default_total_time(_)
Default_total_time(items) ==
    IF items = <<>> THEN 0
    ELSE Get(items[1], "duration_minutes", 1) + Default_total_time(Tail(items))

\* sum(item.get("duration_minutes", 0) for item in plan_data.get("daily_items", []))
RECURSIVE total_time(_)
total_time(items) ==
    IF items = <<>> THEN 0
    ELSE Get(items[1], "duration_minutes", 0) + total_time(Tail(items))

\* generate_daily_plan, from the parsed reply to the dictionary it returns
\* (plan_date, the date of the call, is left out)
daily_plan(user_id, plan_data) ==
    [user_id |-> user_id,
     motivational_message |->
         Get(plan_data, "motivational_message", "Have a great wellness day!"),
     daily_items |-> Get(plan_data, "daily_items", <<>>),
     estimated_total_time |-> total_time(Get(plan_data, "daily_items", <<>>)),
     follow_up_time |-> Get(plan_data, "follow_up_time", "evening")]

\* response_model = DailyPlanResponse: every item needs its four fields
ValidDailyPlanResponse(result) ==
    \A i \in 1..Len(result.daily_items) :
        {"activity", "duration_minutes", "description", "category"}
            \subseteq DOMAIN result.daily_items[i]

PlanInit ==
    /\ plan \in {[NoPlanCall EXCEPT !.user_id = u] : u \in PlanUsers}
    /\ match = <<>> /\ feat = <<>>
    /\ fs = [f \in Files |-> "object"] /\ dirs = [d \in Dirs |-> "dir"]
    /\ catalogItems = MaxItems /\ apiKey = TRUE /\ last = NoCall
    /\ ServerInit /\ ConfIdle /\ ChurnIdle

PlanFrame == UNCHANGED <<envVars, last, serverVars, confVars, churnVars, match, feat>>

\* _call_openai: await self.openai_client.chat.completions.create(...)
PlanCallOpenAI ==
    /\ plan.pc = "start"
    /\ \E r \in RemoteOutcomes :
          plan' = [plan EXCEPT
                      !.remote = r,
                      !.calls = @ + 1,
                      !.pc = IF r.kind = "error" THEN AfterRemoteError ELSE "called",
                      !.exc = IF r.kind = "error" THEN "remote call failed" ELSE @]
    /\ plan'.calls <= 2
    /\ PlanFrame

\* _call_openai: content = ...message.content.strip(), then json.loads
PlanParse ==
    /\ plan.pc = "called"
    /\ IF plan.remote.kind = "no content"
       THEN plan' = [plan EXCEPT !.pc = "raised", !.exc = "AttributeError"]
       ELSE LET r == json_loads(plan.remote)
            IN  plan' = [plan EXCEPT
                            !.parses = @ + 1,
                            !.pc = IF r.raised THEN "raised" ELSE "parsed",
                            !.exc = r.exc,
                            !.plan_data = r.value]
    /\ PlanFrame

\* generate_daily_plan: the total and the returned dictionary; a reply that
\* is not an object has no get
PlanBuild ==
    /\ plan.pc = "parsed"
    /\ IF plan.plan_data.type # "object"
       THEN plan' = [plan EXCEPT !.pc = "raised", !.exc = "AttributeError"]
       ELSE plan' = [plan EXCEPT
                        !.pc = "returned",
                        !.result = daily_plan(plan.user_id, plan.plan_data.obj)]
    /\ PlanFrame

\* The /daily-plan endpoint: except Exception -> HTTPException(500), and the
\* validation of what it returns against DailyPlanResponse
PlanRespond ==
    /\ plan.pc \in {"raised", "returned"}
    /\ plan' = [plan EXCEPT
                   !.pc = "answered",
                   !.http = IF plan.pc = "returned" /\ ValidDailyPlanResponse(plan.result)
                            THEN 200 ELSE 500,
                   !.detail = IF plan.pc = "raised"
                              THEN <<"Daily plan generation failed", plan.exc>>
                              ELSE <<>>]
    /\ PlanFrame

NextPlan == PlanCallOpenAI \/ PlanParse \/ PlanBuild \/ PlanRespond

SpecPlan == PlanInit /\ [][NextPlan]_vars

(***************************************************************************)
(* models/content_matcher.py: match_goal_to_content, and its endpoint.     *)
(*                                                                         *)
(* The remote embeddings call and the FAISS search are the environment.    *)
(* A search for k neighbours among ntotal >= k vectors answers with k      *)
(* distinct positions of the index, nearest first (positions count from 0, *)
(* as in the code; the sequences here count from 1).                       *)
(***************************************************************************)
MaxCatalog == 3
MaxLimit == 4
MaxL2 == 1

Goals == {"g1", "g2"}

\* content_catalog["content"] of a catalog of n items
Catalog(n) ==
    [i \in 1..n |->
        [id |-> <<"id", i>>, title |-> <<"title", i>>,
         description |-> <<"description", i>>, category |-> <<"category", i>>,
         tags |-> <<>>]]

\* The ContentMatcher a successful constructor leaves for a catalog of n items.
ReadyContentMatcher(n) ==
    ContentMatcher_init([f \in Files |-> "object"], "dir", n, TRUE, TRUE, TRUE).self

\* A search that ignores the requested limit.
NoLimit_search_k(limit, ntotal) == ntotal

\* min(limit, self.faiss_index.ntotal)
search_k(limit, ntotal) == IF limit <= ntotal THEN limit ELSE ntotal

\* What faiss_index.search can answer: k distinct positions, and as many
\* distances in ascending order.
SearchResults(k, ntotal) ==
    {[indices |-> ix, distances |-> ds] :
        ix \in {q \in [1..k -> 0..(ntotal - 1)] :
                   \A i, j \in 1..k : q[i] = q[j] => i = j},
        ds \in {q \in [1..k -> 0..MaxL2] :
                   \A i, j \in 1..k : i <= j => q[i] <= q[j]}}

\* The loop over zip(distances[0], indices[0]); similarity = 1 / (1 + distance)
\* is kept as the fraction <<1, 1 + distance>>.
RECURSIVE matched_content(_, _, _, _)
matched_content(content_data, indices, dists, n) ==
    IF n = 0 THEN <<>>
    ELSE LET rest == matched_content(content_data, indices, dists, n - 1)
             idx == indices[n]
         IN  IF idx < Len(content_data)
             THEN LET item == content_data[idx + 1]
                  IN  Append(rest,
                             [id |-> item.id, title |-> item.title,
                              description |-> item.description,
                              category |-> item.category,
                              similarity_score |-> <<1, 1 + dists[n]>>])
             ELSE rest

\* The dictionary match_goal_to_content returns
goal_match(goal, content_data, found) ==
    LET mc == matched_content(content_data, found.indices, found.distances,
                              Len(found.indices))
    IN  [user_goal |-> goal, matched_content |-> mc, total_results |-> Len(mc)]

NoMatchCall ==
    [pc |-> "start", goal |-> "g1", limit |-> 1, self |-> NewContentMatcher,
     content_data |-> <<>>, found |-> <<>>, result |-> <<>>, exc |-> "none",
     http |-> 0]

MatchInit ==
    /\ match \in {[NoMatchCall EXCEPT !.goal = g, !.limit = l,
                                      !.self = ReadyContentMatcher(n),
                                      !.content_data = Catalog(n)] :
                     g \in Goals, l \in 1..MaxLimit, n \in 1..MaxCatalog}
    /\ plan = <<>> /\ feat = <<>>
    /\ fs = [f \in Files |-> "object"] /\ dirs = [d \in Dirs |-> "dir"]
    /\ catalogItems = MaxItems /\ apiKey = TRUE /\ last = NoCall
    /\ ServerInit /\ ConfIdle /\ ChurnIdle

MatchFrame == UNCHANGED <<envVars, last, serverVars, confVars, churnVars, plan, feat>>

\* The guards, then openai_client.embeddings.create(input=[goal]): it answers
\* or it raises, and the except re-raises "Goal matching failed"
MatchEmbed ==
    /\ match.pc = "start"
    /\ \E ok \in BOOLEAN :
          match' = IF ContentMatcher_guard(match.self) # "none"
                   THEN [match EXCEPT !.pc = "raised",
                                      !.exc = ContentMatcher_guard(match.self)]
                   ELSE IF ok THEN [match EXCEPT !.pc = "embedded"]
                   ELSE [match EXCEPT !.pc = "raised", !.exc = "Goal matching failed"]
    /\ MatchFrame

\* faiss_index.search, the loop and the return
MatchSearch ==
    /\ match.pc = "embedded"
    /\ \E found \in SearchResults(search_k(match.limit, match.self.ntotal),
                                  match.self.ntotal) :
          match' = [match EXCEPT
                       !.pc = "returned",
                       !.found = found,
                       !.result = goal_match(match.goal, match.content_data, found)]
    /\ MatchFrame

\* The /match-goal endpoint
MatchRespond ==
    /\ match.pc \in {"raised", "returned"}
    /\ match' = [match EXCEPT !.pc = "answered",
                              !.http = IF match.pc = "returned" THEN 200 ELSE 500]
    /\ MatchFrame

NextMatch == MatchEmbed \/ MatchSearch \/ MatchRespond

SpecMatch == MatchInit /\ [][NextMatch]_vars

(***************************************************************************)
(* utils/feature_prep.py: the two feature vectors, built from dictionaries *)
(* in which any field may be absent.  Every field has values of its own,   *)
(* so that a value in the wrong position shows.                            *)
(***************************************************************************)
Absent == 0 - 1

\* ChurnPredictor.feature_names
feature_names ==
    <<"days_since_signup", "total_sessions", "avg_session_duration",
      "streak_length", "last_login_days_ago", "content_completion_rate",
      "notification_response_rate", "goal_progress_percentage">>

\* The dictionary that has the fields of full that are not absent.
Present(full, absent) == [k \in {f \in DOMAIN full : full[f] # absent} |-> full[k]]

ChurnDicts ==
    {Present(full, Absent) :
        full \in [days_since_signup : {Absent, 7, 8},
                  total_sessions : {Absent, 2, 3},
                  avg_session_duration : {Absent, 15},
                  streak_length : {Absent, 9},
                  last_login_days_ago : {Absent, 3, 4, 8},
                  content_completion_rate : {Absent, 29, 30},
                  notification_response_rate : {Absent, 19, 21},
                  goal_progress_percentage : {Absent, 18, 20}]}

\* FeaturePreparator.time_encoding
time_encoding == [morning |-> 0, afternoon |-> 1, evening |-> 2]

\* An encoding that keeps unknown times of day apart from the known ones.
Unknown_time_encode(t) == IF t \in DOMAIN time_encoding THEN time_encoding[t] ELSE 3

\* self.time_encoding.get(..., 0)
time_encode(t) == Get(time_encoding, t, 0)

prepare_clustering_features(user_data) ==
    <<Get(user_data, "session_count", 0),
      Get(user_data, "avg_session_duration", 0),
      Get(user_data, "streak_length", 0),
      time_encode(Get(user_data, "preferred_time_of_day", "morning")),
      Get(user_data, "content_engagement_rate", 0),
      Get(user_data, "notification_response_rate", 0)>>

TimesOfDay == {"morning", "afternoon", "evening", "night", "Morning", ""}

\* The dictionary d with a preferred_time_of_day, unless it is to be absent.
WithTime(d, t) ==
    IF t = "absent" THEN d
    ELSE [k \in DOMAIN d \cup {"preferred_time_of_day"} |->
             IF k = "preferred_time_of_day" THEN t ELSE d[k]]

ClusteringDicts ==
    {WithTime(Present(full, Absent), t) :
        full \in [session_count : {Absent, 11, 12},
                  avg_session_duration : {Absent, 13},
                  streak_length : {Absent, 14},
                  content_engagement_rate : {Absent, 16},
                  notification_response_rate : {Absent, 17}],
        t \in {"absent"} \cup TimesOfDay}

NoFeatCall ==
    [op |-> "none", user_data |-> <<>>, prob |-> 0, features |-> <<>>,
     given |-> <<>>, factors |-> <<>>]

FeatInit ==
    /\ \/ feat \in {[NoFeatCall EXCEPT !.op = "churn", !.user_data = d, !.prob = p] :
                       d \in ChurnDicts, p \in {5000, 5001}}
       \/ feat \in {[NoFeatCall EXCEPT !.op = "clustering", !.user_data = d] :
                       d \in ClusteringDicts}
    /\ plan = <<>> /\ match = <<>>
    /\ fs = [f \in Files |-> "object"] /\ dirs = [d \in Dirs |-> "dir"]
    /\ catalogItems = MaxItems /\ apiKey = TRUE /\ last = NoCall
    /\ ServerInit /\ ConfIdle /\ ChurnIdle

FeatFrame == UNCHANGED <<envVars, last, serverVars, confVars, churnVars, plan, match>>

\* predict_churn on a dictionary: the vector, given as it is to predict_proba
\* and to _get_risk_factors
ChurnFeatures ==
    /\ feat.op = "churn" /\ feat.features = <<>>
    /\ LET features == prepare_churn_features(feat.user_data)
       IN  feat' = [feat EXCEPT
                       !.features = features,
                       !.given = features,
                       !.factors = get_risk_factors(features, feat.prob)]
    /\ FeatFrame

\* cluster_user on a dictionary: the vector, given as it is to kmeans_model
ClusteringFeatures ==
    /\ feat.op = "clustering" /\ feat.features = <<>>
    /\ LET features == prepare_clustering_features(feat.user_data)
       IN  feat' = [feat EXCEPT !.features = features, !.given = features]
    /\ FeatFrame

NextFeat == ChurnFeatures \/ ClusteringFeatures

SpecFeat == FeatInit /\ [][NextFeat]_vars

(***************************************************************************)
(* Properties of the lazy singletons and the health check.                 *)
(***************************************************************************)
Published(w) == ~IsNone(wrapper[w])

\* C1: requests handled one after another. No constructor runs, and no
\* wrapper is published, before the first call of its getter; every call of
\* a getter that returns gives the same instance; and the constructor is not
\* started again once the getter has returned an instance.
C1_LazySingletonSequential ==
    \A w \in Wrappers :
        /\ ~hist[w].called => ~hist[w].ctorRun /\ ~Published(w) /\ hist[w].completed = 0
        /\ Cardinality(hist[w].returned) <= 1
        /\ ~hist[w].rerun
        /\ hist[w].completed <= 1

\* C1, witness: a POST request and a health check both got the user
\* clusterer, the single instance its one completed constructor run made.
C1_Witness ==
    \E t \in Workers :
        /\ pc[t] = "done" /\ target[t] = "user_clusterer"
        /\ hc.health_status["user_clusterer"]
        /\ hist["user_clusterer"].returned = {1}
        /\ hist["user_clusterer"].completed = 1

\* C2: under every interleaving each wrapper's constructor completes at most
\* once and every getter call that returns gives the same instance.
C2_SingletonUnderConcurrency ==
    \A w \in Wrappers :
        /\ hist[w].completed <= 1
        /\ Cardinality(hist[w].returned) <= 1

\* An instance all of whose artifacts were obtained: it says it is ready and
\* its operation passes the 'not loaded' / 'not initialized' guards.
Complete(w, inst) == is_ready(w, inst.self) /\ Guard(w, inst.self) = "none"

\* C3: a constructor completes only with every artifact obtained, so every
\* instance a constructor handed back, and every module-level wrapper that is
\* not None, is ready and passes the guards of its operation; no request
\* ends with a 'not loaded' / 'not initialized' error.
C3_PublishedWrappersReady ==
    /\ \A w \in Wrappers : Published(w) => Complete(w, wrapper[w])
    /\ \A t \in Workers : ~IsNone(local[t]) => Complete(target[t], local[t])
    /\ ~IsNone(hc.local) => Complete(HealthOrder[hc.i], hc.local)
    /\ \A t \in Workers : pc[t] # "not loaded"

\* C3, witness: with one artifact of the deployment falsy or absent, a
\* request got a published user clusterer and its operation passed the guards.
C3_Witness ==
    \E t \in Workers :
        /\ pc[t] = "done" /\ target[t] = "user_clusterer"
        /\ Published("user_clusterer")
        /\ \E f \in Files : fs[f] # "object"

C5_HealthCheckNeverRaises ==
    /\ ~hc.raised
    /\ hc.pc = "done" =>
          /\ hc.status \in {"healthy", "degraded"}
          /\ hc.status = "degraded" =>
                \A j \in hc.i..4 : ~hc.health_status[HealthOrder[j]]

\* C5, witness: the constructor of the user clusterer raised inside a health
\* check, which answered "degraded" with the content matcher reported True.
C5_Witness ==
    /\ hc.pc = "done" /\ hc.status = "degraded" /\ hc.i = 2
    /\ hc.health_status["content_matcher"]
    /\ IsNone(wrapper["user_clusterer"])

(***************************************************************************)
(* Properties of loading.                                                  *)
(***************************************************************************)
LoadOps == {"load_pickle_model", "load_joblib_model", "load_json_data"}

\* C6: a loader never raises; on a file that does not exist it returns None
\* without calling the deserializer; when deserialization fails it returns
\* None; otherwise it returns the deserialized object; and it leaves every
\* file and directory as it found them.
C6_LoadContract ==
    last.op \in LoadOps =>
        /\ ~last.raised
        /\ last.st = "missing" => last.result = None /\ ~last.deserCalled
        /\ last.st = "corrupt" => last.result = None
        /\ last.st \in {"falsy", "object"} =>
              last.deserCalled /\ last.result = Deserialize(last.st).value
        /\ fs = last.fsBefore
        /\ dirs = last.dirsBefore

\* C6, witness: load_joblib_model was called on a file that does not exist.
C6_Witness ==
    /\ last.op = "load_joblib_model" /\ last.st = "missing"
    /\ last.result = None /\ ~last.deserCalled

\* The wrapper's own exception for an artifact it did not get.
NotFound(f) ==
    CASE f = KMeansFile -> "KMeans model not found"
      [] f = ClusteringScalerFile -> "Clustering scaler not found"
      [] f = ClusterInfoFile -> "Cluster info not found"
      [] f = ChurnModelFile -> "Churn model not found"
      [] f = ChurnScalerFile -> "Churn scaler not found"

\* The first artifact, in load order, that the wrapper cannot get (0: none).
\* An artifact is missing, as the wrappers read it, when its file is absent
\* or does not load to a truthy object.
FirstMissing(files, fsv) ==
    LET bad == {i \in 1..Len(files) : fsv[files[i]] # "object"}
    IN  IF bad = {} THEN 0 ELSE CHOOSE i \in bad : \A j \in bad : i <= j

NamesFirstMissing(op, files) ==
    LET k == FirstMissing(files, last.fsBefore)
    IN  (last.op = op /\ k # 0) =>
            /\ last.exc = NotFound(files[k])
            /\ last.loaded = SubSeq(files, 1, k)

\* C7: in every state of the file system, constructing UserClusterer or
\* ChurnPredictor with an artifact missing fails with the wrapper's own 'not
\* found' exception for the first missing artifact in load order, and no
\* artifact after it is loaded.
C7_NotFoundNamesFirstMissing ==
    /\ NamesFirstMissing("UserClusterer", ClusteringFiles)
    /\ NamesFirstMissing("ChurnPredictor", ChurnFiles)

(***************************************************************************)
(* Properties of the clustering confidence.                                *)
(***************************************************************************)
ConfComputed == confidence # -1
AllEqualPositive == SeqMin(distances) = SeqMax(distances) /\ SeqMin(distances) > 0

\* C8 as stated: the confidence lies in [0, 1], is 1 exactly when the
\* smallest distance is 0, and is 0 exactly when all distances are equal and
\* positive.
C8_ConfidenceAsStated ==
    ConfComputed =>
        /\ 0 <= confidence /\ confidence <= One
        /\ confidence = One <=> SeqMin(distances) = 0
        /\ confidence = 0 <=> AllEqualPositive

\* C8, amended: the confidence is 1 - min/max (max replaced by 1 when it is
\* 0) evaluated in floating point, within 2^-MantBits of the exact value; it
\* lies in [0, 1]; it is 1 whenever the smallest distance is 0, and otherwise
\* only when the smallest distance is at most 2^-(MantBits+1) of the largest,
\* where the subtraction rounds to 1; it is 0 exactly when all distances are
\* equal and positive.
C8_ConfidenceRounded ==
    ConfComputed =>
        LET lo == SeqMin(distances)
            hi == IF SeqMax(distances) > 0 THEN SeqMax(distances) ELSE 1
            err == confidence * hi - (hi - lo) * Grid
        IN  /\ 0 <= confidence /\ confidence <= One
            /\ err * Pow2(MantBits) <= hi * Grid
            /\ (0 - err) * Pow2(MantBits) <= hi * Grid
            /\ lo = 0 => confidence = One
            /\ (confidence = One /\ lo > 0) => lo * Pow2(MantBits + 1) <= hi
            /\ confidence = 0 <=> AllEqualPositive

\* C8, witness: three clusters, the nearest centre at a positive distance
\* that is negligible against the farthest, and a confidence of exactly 1.
C8_Witness ==
    /\ ConfComputed /\ Len(distances) = 3
    /\ SeqMin(distances) > 0
    /\ confidence = One

(***************************************************************************)
(* Properties of the churn prediction.                                     *)
(***************************************************************************)
ChurnComputed == response # <<>>

\* C9: risk_level is "high" iff p >= 0.7, "medium" iff 0.4 <= p < 0.7, "low"
\* iff p < 0.4, and nothing else; it is decided on the probability as the
\* classifier gave it, while the response reports the probability rounded to
\* three decimals.
C9_RiskLevelOnUnroundedProbability ==
    ChurnComputed =>
        /\ response.risk_level \in {"high", "medium", "low"}
        /\ response.risk_level = "high" <=> churn_prob >= 7000
        /\ response.risk_level = "medium" <=> (4000 <= churn_prob /\ churn_prob < 7000)
        /\ response.risk_level = "low" <=> churn_prob < 4000
        /\ 10 * response.churn_probability - churn_prob <= 5
        /\ churn_prob - 10 * response.churn_probability <= 5

\* C9, witness: a probability of 0.6996 is "medium" and is reported as 0.700.
C9_Witness ==
    /\ ChurnComputed /\ churn_prob = 6996
    /\ response.risk_level = "medium"
    /\ response.churn_probability = 700

\* The seven factors in the order of the claim, and when each applies to the
\* request.
FactorOrder ==
    <<"Extended period without app usage",
      "Several days since last login",
      "Low session count relative to signup time",
      "Low content completion rate",
      "Poor notification engagement",
      "Limited progress toward wellness goals",
      "General engagement decline patterns">>

ThresholdApplies(i) ==
    CASE i = 1 -> request.last_login_days_ago > 7
      [] i = 2 -> 3 < request.last_login_days_ago /\ request.last_login_days_ago <= 7
      [] i = 3 -> request.total_sessions < 3 /\ request.days_since_signup > 7
      [] i = 4 -> request.content_completion_rate < 30
      [] i = 5 -> request.notification_response_rate < 20
      [] i = 6 -> request.goal_progress_percentage < 20

FactorApplies(i) ==
    IF i <= 6 THEN ThresholdApplies(i)
    ELSE (\A j \in 1..6 : ~ThresholdApplies(j)) /\ churn_prob > 5000

RECURSIVE ExpectedFactors(_)
ExpectedFactors(n) ==
    IF n = 0 THEN <<>>
    ELSE IF FactorApplies(n) THEN Append(ExpectedFactors(n - 1), FactorOrder[n])
    ELSE ExpectedFactors(n - 1)

\* C10: factors_contributing_to_risk holds, in the fixed order and without
\* duplicates, exactly the factors whose threshold comparison on the request
\* holds, and the general factor iff none of them holds and the probability
\* is above 0.5.
C10_RiskFactorsAreThresholds ==
    ChurnComputed =>
        LET factors == response.factors_contributing_to_risk
        IN  /\ factors = ExpectedFactors(7)
            /\ \A i, j \in 1..Len(factors) : factors[i] = factors[j] => i = j
            /\ ~(InSeq(FactorOrder[1], factors) /\ InSeq(FactorOrder[2], factors))

\* C10, witness: a request past every threshold gets the five factors of the
\* thresholds it is past, the first of the two login factors among them.
C10_Witness ==
    /\ ChurnComputed
    /\ request.last_login_days_ago > 7
    /\ response.factors_contributing_to_risk =
          <<FactorOrder[1], FactorOrder[3], FactorOrder[4], FactorOrder[5], FactorOrder[6]>>

(***************************************************************************)
(* Properties of the daily plan.                                           *)
(***************************************************************************)
PlanAnswered == plan # <<>> /\ plan.pc = "answered"
RemoteFailed == plan.remote.kind = "error"
NotValidJson == plan.remote.kind \in {"no content", "not json", "too deep"}

\* One remote call, then at most one parse, never a second call; when the
\* remote call failed or its reply is not valid JSON, no plan and HTTP 500.
OneCallOneParse ==
    plan # <<>> =>
        /\ plan.calls <= 1 /\ plan.parses <= plan.calls
        /\ plan.pc # "start" => plan.calls = 1
        /\ PlanAnswered =>
              /\ plan.parses = IF plan.remote.kind \in {"error", "no content"} THEN 0 ELSE 1
              /\ (RemoteFailed \/ NotValidJson) =>
                    plan.result = <<>> /\ plan.exc # "none" /\ plan.http = 500

\* C11 as stated: one remote call and one parse, no retry, no plan and HTTP
\* 500 on failure, and every reply that fails to parse raises "Invalid JSON
\* response from OpenAI".
C11_AsStated ==
    /\ OneCallOneParse
    /\ (PlanAnswered /\ plan.remote.kind \in {"not json", "too deep"}) =>
          plan.exc = "Invalid JSON response from OpenAI"

\* C11, amended: one remote call and one parse, no retry, no plan and HTTP
\* 500 on failure; a reply that json.loads rejects with JSONDecodeError
\* raises "Invalid JSON response from OpenAI", while a reply nested past the
\* recursion limit raises the RecursionError of json.loads itself.
C11_OneCallNoFallback ==
    /\ OneCallOneParse
    /\ (PlanAnswered /\ plan.remote.kind = "not json") =>
          /\ plan.exc = "Invalid JSON response from OpenAI"
          /\ plan.detail = <<"Daily plan generation failed", "Invalid JSON response from OpenAI">>
    /\ (PlanAnswered /\ plan.remote.kind = "too deep") =>
          plan.exc = "RecursionError" /\ plan.http = 500

\* C11, witness: the one remote call answered with a reply nested past the
\* recursion limit; it was parsed once, no plan was returned and the endpoint
\* answered 500.
C11_Witness ==
    /\ PlanAnswered /\ plan.remote.kind = "too deep"
    /\ plan.calls = 1 /\ plan.parses = 1
    /\ plan.result = <<>> /\ plan.http = 500

RECURSIVE SumDurations(_, _)
SumDurations(items, n) ==
    IF n = 0 THEN 0
    ELSE SumDurations(items, n - 1)
            + (IF "duration_minutes" \in DOMAIN items[n] THEN items[n].duration_minutes ELSE 0)

\* C12: in every returned plan estimated_total_time is the sum of
\* duration_minutes over the daily_items of that response, an item without
\* it counting 0; user_id is the request's; and motivational_message and
\* follow_up_time are the reply's, or "Have a great wellness day!" and
\* "evening" when the reply lacks them.
C12_PlanTotalsAndDefaults ==
    (plan # <<>> /\ plan.result # <<>>) =>
        LET r == plan.result
            d == plan.plan_data.obj
        IN  /\ r.estimated_total_time = SumDurations(r.daily_items, Len(r.daily_items))
            /\ "daily_items" \notin DOMAIN d => r.daily_items = <<>> /\ r.estimated_total_time = 0
            /\ "daily_items" \in DOMAIN d => r.daily_items = d.daily_items
            /\ r.user_id = plan.user_id
            /\ r.motivational_message =
                  IF "motivational_message" \in DOMAIN d
                  THEN d.motivational_message ELSE "Have a great wellness day!"
            /\ r.follow_up_time =
                  IF "follow_up_time" \in DOMAIN d THEN d.follow_up_time ELSE "evening"

\* C12, witness: a plan of two items, one without duration_minutes, from a
\* reply that has neither a message nor a follow-up time.
C12_Witness ==
    /\ plan # <<>> /\ plan.result # <<>>
    /\ DOMAIN plan.plan_data.obj = {"daily_items"}
    /\ Len(plan.result.daily_items) = 2
    /\ "duration_minutes" \notin DOMAIN plan.result.daily_items[1]
    /\ "duration_minutes" \in DOMAIN plan.result.daily_items[2]
    /\ plan.result.estimated_total_time = plan.result.daily_items[2].duration_minutes
    /\ plan.result.follow_up_time = "evening"

(***************************************************************************)
(* Properties of the goal matching.                                        *)
(***************************************************************************)
MatchReturned == match # <<>> /\ match.result # <<>>

\* C13: for a ready ContentMatcher and a limit of at least 1, the response
\* has the requested goal as user_goal, total_results is the number of
\* entries of matched_content, which is at most the limit and at most the
\* number of catalog items, and the j-th entry carries the id, title,
\* description and category of the catalog item at the j-th position the
\* search returned.
C13_MatchResponseShape ==
    MatchReturned =>
        LET r == match.result
            n == Len(r.matched_content)
        IN  /\ ContentMatcher_is_ready(match.self) /\ match.limit >= 1
            /\ r.user_goal = match.goal
            /\ r.total_results = n
            /\ n <= match.limit
            /\ n <= Len(match.content_data)
            /\ n = Len(match.found.indices)
            /\ \A j \in 1..n :
                  LET item == match.content_data[match.found.indices[j] + 1]
                  IN  /\ r.matched_content[j].id = item.id
                      /\ r.matched_content[j].title = item.title
                      /\ r.matched_content[j].description = item.description
                      /\ r.matched_content[j].category = item.category

\* C13, witness: a limit of 2 on a catalog of three items answered with two
\* entries, the first of them the last item of the catalog.
C13_Witness ==
    /\ MatchReturned
    /\ match.limit = 2 /\ Len(match.content_data) = 3
    /\ match.result.total_results = 2
    /\ match.found.indices[1] = 2
    /\ match.result.matched_content[1].id = <<"id", 3>>

(***************************************************************************)
(* Properties of the feature vectors.                                      *)
(***************************************************************************)
FeatDone(op) == feat # <<>> /\ feat.op = op /\ feat.features # <<>>

\* The value of a named field of the dictionary, 0 when it is absent.
Field(name) == IF name \in DOMAIN feat.user_data THEN feat.user_data[name] ELSE 0

\* The factors of C10, from the named fields of the dictionary.
NamedThreshold(i) ==
    CASE i = 1 -> Field("last_login_days_ago") > 7
      [] i = 2 -> 3 < Field("last_login_days_ago") /\ Field("last_login_days_ago") <= 7
      [] i = 3 -> Field("total_sessions") < 3 /\ Field("days_since_signup") > 7
      [] i = 4 -> Field("content_completion_rate") < 30
      [] i = 5 -> Field("notification_response_rate") < 20
      [] i = 6 -> Field("goal_progress_percentage") < 20

NamedApplies(i) ==
    IF i <= 6 THEN NamedThreshold(i)
    ELSE (\A j \in 1..6 : ~NamedThreshold(j)) /\ feat.prob > 5000

RECURSIVE NamedFactors(_)
NamedFactors(n) ==
    IF n = 0 THEN <<>>
    ELSE IF NamedApplies(n) THEN Append(NamedFactors(n - 1), FactorOrder[n])
    ELSE NamedFactors(n - 1)

\* C14: prepare_churn_features gives a vector of 8 values, the i-th the value
\* of the i-th name of feature_names in the request, 0 when the request lacks
\* it; the classifier is given these values unchanged; and the risk factors
\* computed from the vector are those of the thresholds on the fields they
\* are named after.
C14_ChurnFeaturesPositionConsistent ==
    FeatDone("churn") =>
        /\ Len(feat.features) = 8 /\ Len(feature_names) = 8
        /\ \A i \in 1..8 : feat.features[i] = Field(feature_names[i])
        /\ \A i \in 1..8 :
              feature_names[i] \notin DOMAIN feat.user_data => feat.features[i] = 0
        /\ feat.given = feat.features
        /\ feat.factors = NamedFactors(7)

\* C14, witness: a request without streak_length whose last login was 8 days
\* ago: position 3 holds 0, position 4 holds 8, and the factor is the one of
\* a login more than 7 days ago.
C14_Witness ==
    /\ FeatDone("churn")
    /\ "streak_length" \notin DOMAIN feat.user_data
    /\ "last_login_days_ago" \in DOMAIN feat.user_data
    /\ feat.user_data["last_login_days_ago"] = 8
    /\ feat.features[4] = 0 /\ feat.features[5] = 8
    /\ feat.factors # <<>> /\ feat.factors[1] = "Extended period without app usage"

\* C15: prepare_clustering_features gives the 6 values session_count,
\* avg_session_duration, streak_length, the encoded preferred_time_of_day,
\* content_engagement_rate, notification_response_rate, in this order; morning
\* is encoded 0, afternoon 1, evening 2, and every other or absent time of day
\* 0, as morning is: the call returns the vector whatever the time of day.
C15_ClusteringFeaturesEncoding ==
    FeatDone("clustering") =>
        LET t == IF "preferred_time_of_day" \in DOMAIN feat.user_data
                 THEN feat.user_data["preferred_time_of_day"] ELSE "absent"
        IN  /\ Len(feat.features) = 6
            /\ feat.features[1] = Field("session_count")
            /\ feat.features[2] = Field("avg_session_duration")
            /\ feat.features[3] = Field("streak_length")
            /\ feat.features[5] = Field("content_engagement_rate")
            /\ feat.features[6] = Field("notification_response_rate")
            /\ feat.features[4] = CASE t = "afternoon" -> 1
                                    [] t = "evening" -> 2
                                    [] OTHER -> 0
            /\ t \notin {"afternoon", "evening"} =>
                  feat.features[4] = time_encoding["morning"]

\* C15, witness: "night" is encoded 0, as "morning" is.
C15_Witness ==
    /\ FeatDone("clustering")
    /\ "preferred_time_of_day" \in DOMAIN feat.user_data
    /\ feat.user_data["preferred_time_of_day"] = "night"
    /\ feat.features[4] = 0
    /\ feat.features[1] = 12

(***************************************************************************)
(* Properties of the wrappers after construction.                          *)
(***************************************************************************)
\* C16: no step of a POST request changes a module-level wrapper variable
\* that is already set, nor a field of the wrapper it holds; and a published
\* content matcher has as many indexed embeddings as catalog items.
C16_WrappersReadOnly ==
    /\ [][hc' = hc =>
            \A w \in Wrappers : Published(w) => wrapper'[w] = wrapper[w]]_vars
    /\ [](Published("content_matcher") =>
            wrapper["content_matcher"].self.ntotal
                = wrapper["content_matcher"].self.content_data)

====
